---- MODULE Spec2Model ----
(***************************************************************************)
(* docker-prune (main.go): a coordinator loop that starts one prune cycle  *)
(* per timer tick, each cycle run by a worker goroutine under a deadline.  *)
(*                                                                         *)
(* Time is counted in units of time.Second.  The Go scheduler gives no     *)
(* real-time guarantee, so time may pass between any two steps of the      *)
(* coordinator or of a worker.  A select statement is evaluated in one     *)
(* step: any case that can proceed may be chosen.                          *)
(***************************************************************************)
EXTENDS Integers, Sequences, FiniteSets, TLC

\* ---- bounds of the model -------------------------------------------------
MaxInterval == 2
MaxCycles == 2

\* ---- program constants ---------------------------------------------------
QueueCap == 1
TickerCap == 1
TimeUnit == 1

VARIABLES
    intervalF,   \* --interval, in time units
    allF,        \* --all
    F,           \* the Filter Set parsed at startup (never written afterwards)
    heap,        \* the maps behind filters.Args values: ref -> fields
    queue,       \* number of requests buffered in queue
    tickerC,     \* number of ticks buffered in ticker.C
    phase,       \* time units elapsed since the ticker last fired
    pc,          \* coordinator: "select" | "enqueue" | "wait"
    ctxLeft,     \* per cycle: time units left until ctx is done (0 = done)
    workers,     \* per cycle: the worker goroutine running runPrune
    log,         \* what the coordinator has logged
    hist         \* bookkeeping for the properties; never read by the program

vars == <<intervalF, allF, F, heap, queue, tickerC, phase, pc, ctxLeft, workers, log, hist>>

\* ---- uint64 (main.go:80, total): four 16-bit limbs, least significant first

LimbBase == 2 ^ 16

Zero == <<0, 0, 0, 0>>

MaxUint64 == <<LimbBase - 1, LimbBase - 1, LimbBase - 1, LimbBase - 1>>

U64(n) == <<n % LimbBase, n \div LimbBase, 0, 0>>

\* limbs k.. of a + b + carry, followed by the carry out of the last limb
RECURSIVE AddCarry(_, _, _, _)
AddCarry(a, b, k, carry) ==
    IF k > Len(a) THEN <<carry>>
    ELSE LET s == a[k] + b[k] + carry
         IN  <<s % LimbBase>> \o AddCarry(a, b, k + 1, s \div LimbBase)

\* total += spaceReclaimed on uint64: the carry out of bit 63 is lost
Add64(a, b) == SubSeq(AddCarry(a, b, 1, 0), 1, Len(a))

\* ---- filters.Args (main.go:23): fields is a Go map, so an Args value is a
\* ---- reference into heap; fields maps a key to a map value -> bool

\* the strings of the model in byte order (json.Marshal sorts map keys)
KeyOrder == <<"dangling", "env=staging", "false", "label", "true">>

NewArgs == [k \in {} |-> [v \in {} |-> TRUE]]

\* filters.Args.Add on the map behind ref
Add(h, ref, key, value) ==
    [h EXCEPT ![ref] =
        IF key \in DOMAIN @
        THEN [@ EXCEPT ![key] = (value :> TRUE) @@ @]
        ELSE (key :> (value :> TRUE)) @@ @]

\* json.Marshal of a map[string]bool: its members in sorted key order
RECURSIVE MarshalValues(_, _)
MarshalValues(m, k) ==
    IF k > Len(KeyOrder) THEN <<>>
    ELSE (IF KeyOrder[k] \in DOMAIN m
          THEN <<[name |-> KeyOrder[k], value |-> IF m[KeyOrder[k]] THEN "true" ELSE "false"]>>
          ELSE <<>>) \o MarshalValues(m, k + 1)

\* json.Marshal of fields, a map[string]map[string]bool
RECURSIVE MarshalFields(_, _)
MarshalFields(m, k) ==
    IF k > Len(KeyOrder) THEN <<>>
    ELSE (IF KeyOrder[k] \in DOMAIN m
          THEN <<[name |-> KeyOrder[k], value |-> MarshalValues(m[KeyOrder[k]], 1)]>>
          ELSE <<>>) \o MarshalFields(m, k + 1)

\* filters.ToParam: "" for an empty Args, else the JSON text of fields
ToParam(fields) ==
    IF DOMAIN fields = {} THEN <<>> ELSE MarshalFields(fields, 1)

UnmarshalBool(s) == s = "true"

UnmarshalValues(members) ==
    [v \in {members[j].name : j \in DOMAIN members} |->
        UnmarshalBool(members[CHOOSE j \in DOMAIN members : members[j].name = v].value)]

\* filters.FromParam: NewArgs for "", else fields decoded from the JSON text
FromParam(p) ==
    IF p = <<>> THEN NewArgs
    ELSE [k \in {p[j].name : j \in DOMAIN p} |->
            UnmarshalValues(p[CHOOSE j \in DOMAIN p : p[j].name = k].value)]

\* faulty variant: the struct is copied, as the source's comment considers,
\* and the copy shares the map
cloneArgsAlias(h, pruneFilter, fresh) == [heap |-> h, ref |-> pruneFilter]

\* cloneArgs: a new Args (at ref fresh) decoded from the encoding of pruneFilter
cloneArgs(h, pruneFilter, fresh) ==
    [heap |-> (fresh :> FromParam(ToParam(h[pruneFilter]))) @@ h, ref |-> fresh]

\* fmt.Sprintf("%v", b)
SprintBool(b) == IF b THEN "true" ELSE "false"

\* --filter values after filters.ParseFlag split them at the first "="
FilterFlags ==
    { <<>>,
      << <<"label", "env=staging">> >>,
      << <<"dangling", "false">> >> }

ExampleFlags == << <<"label", "env=staging">> >>

\* main.go:26-31: args after every --filter value was parsed into it
RECURSIVE ParseFlags(_, _, _)
ParseFlags(flags, k, h) ==
    IF k > Len(flags) THEN h
    ELSE ParseFlags(flags, k + 1, Add(h, "args", flags[k][1], flags[k][2]))

\* ---- the engine (client.APIClient), an external collaborator -------------

EngineErr == "engine error"

DeadlineExceeded == "context deadline exceeded"

\* reclaimed-byte counts an engine report may carry: the whole uint64 range
\* is sampled by Bytes; the scheduler is explored with SchedBytes
Bytes == {Zero, U64(1000), MaxUint64}

SchedBytes == {U64(1000)}

\* the reports of one prune call: the number of deleted entities and, except
\* for networks (types.NetworksPruneReport has no SpaceReclaimed), the bytes
Reports(op, bytes) ==
    CASE op = "containers" -> {[deleted |-> 5, space |-> b] : b \in bytes}
      [] op = "images"     -> {[deleted |-> 2, space |-> b] : b \in bytes}
      [] op = "networks"   -> {[deleted |-> 1]}
      [] op = "volumes"    -> {[deleted |-> 3, space |-> b] : b \in bytes}

\* what a prune call can return: a report, an engine error or, once ctx is
\* done, ctx's error.  Cancellation is cooperative: a call may also go on and
\* return a report or an engine error after ctx is done.
Returns(op, done, bytes) ==
    {[err |-> "nil", report |-> r] : r \in Reports(op, bytes)}
        \cup {[err |-> EngineErr]}
        \cup (IF done THEN {[err |-> DeadlineExceeded]} ELSE {})

\* ---- the prune functions: h is the heap, pruneFilter the ref of the Args
\* ---- passed in, res what the engine call returns; filters is what the
\* ---- engine call received

pruneContainers(h, all, pruneFilter, res) ==
    [heap |-> h, filters |-> h[pruneFilter], err |-> res.err,
     space |-> IF res.err # "nil" THEN Zero ELSE res.report.space,
     output |-> IF res.err # "nil" THEN <<>>
                ELSE <<"Deleted Containers: ", res.report.deleted,
                       ", Reclaimed Space: ", res.report.space>>]

\* faulty variant: the number of deleted networks is returned as reclaimed space
pruneNetworksSpaceIsCount(h, all, pruneFilter, res) ==
    [heap |-> h, filters |-> h[pruneFilter], err |-> res.err,
     space |-> IF res.err # "nil" THEN Zero ELSE U64(res.report.deleted),
     output |-> IF res.err # "nil" THEN <<>>
                ELSE <<"Deleted Networks: ", res.report.deleted>>]

pruneNetworks(h, all, pruneFilter, res) ==
    [heap |-> h, filters |-> h[pruneFilter], err |-> res.err,
     space |-> Zero,
     output |-> IF res.err # "nil" THEN <<>>
                ELSE <<"Deleted Networks: ", res.report.deleted>>]

pruneVolumes(h, all, pruneFilter, res) ==
    [heap |-> h, filters |-> h[pruneFilter], err |-> res.err,
     space |-> IF res.err # "nil" THEN Zero ELSE res.report.space,
     output |-> IF res.err # "nil" THEN <<>>
                ELSE <<"Deleted Volumes: ", res.report.deleted,
                       ", Reclaimed Space: ", res.report.space>>]

pruneImages(h, all, pruneFilter, res) ==
    LET c == cloneArgs(h, pruneFilter, "newArgs")
        h2 == Add(c.heap, c.ref, "dangling", SprintBool(~all))
    IN  [heap |-> h2, filters |-> h2[c.ref], err |-> res.err,
         space |-> IF res.err # "nil" THEN Zero ELSE res.report.space,
         output |-> IF res.err # "nil" THEN <<>>
                    ELSE <<"Deleted Images: ", res.report.deleted,
                           ", Reclaimed Space: ", res.report.space>>]

\* faulty variant: images and networks in the wrong order
pruneFuncsSwapped == <<"containers", "networks", "images", "volumes">>

pruneFuncs == <<"containers", "images", "networks", "volumes">>

\* pruneFuncs[i](ctx, cli, all, pruneFilter)
Call(op, h, all, pruneFilter, res) ==
    CASE op = "containers" -> pruneContainers(h, all, pruneFilter, res)
      [] op = "images"     -> pruneImages(h, all, pruneFilter, res)
      [] op = "networks"   -> pruneNetworks(h, all, pruneFilter, res)
      [] op = "volumes"    -> pruneVolumes(h, all, pruneFilter, res)

\* ---- a worker goroutine: go func() { errCh <- runPrune(...) }() ----------
\* pc: "run" inside runPrune, about to make or inside call i; "send" blocked
\* on errCh <- ret; "exit" once the coordinator has received ret.
\* calls: the engine calls made, each with the filters it received and the
\* error it returned; output: the lines given to logger.Info and Infof.

NewWorker ==
    [pc |-> "run", i |-> 1, total |-> Zero, ret |-> "none", calls |-> <<>>, output |-> <<>>]

\* the goroutine is gone once its send was received: what remains is the
\* value it sent
Exited(wk) == [NewWorker EXCEPT !.pc = "exit", !.i = 0, !.ret = wk.ret]

\* faulty variant: the loop goes on after a failed call instead of returning err
runPruneIterContinue(wk, r) ==
    LET called == Append(wk.calls,
                    [op |-> pruneFuncs[wk.i], filters |-> r.filters, err |-> r.err])
        total  == Add64(wk.total, r.space)
        last   == wk.i = Len(pruneFuncs)
    IN  [wk EXCEPT !.calls = called, !.total = total, !.i = @ + 1,
                   !.output = IF last
                              THEN @ \o <<r.output, <<"Total reclaimed space: ", total>>>>
                              ELSE Append(@, r.output),
                   !.ret = IF last THEN "nil" ELSE "none",
                   !.pc = IF last THEN "send" ELSE "run"]

\* faulty variant: the total is logged when a call failed, too
runPruneIterTotalAlways(wk, r) ==
    LET called == Append(wk.calls,
                    [op |-> pruneFuncs[wk.i], filters |-> r.filters, err |-> r.err])
        total  == Add64(wk.total, r.space)
        last   == wk.i = Len(pruneFuncs)
    IN  IF r.err # "nil"
        THEN [wk EXCEPT !.calls = called, !.ret = r.err, !.pc = "send",
                        !.output = Append(@, <<"Total reclaimed space: ", wk.total>>)]
        ELSE [wk EXCEPT !.calls = called, !.total = total, !.i = @ + 1,
                        !.output = IF last
                                   THEN @ \o <<r.output, <<"Total reclaimed space: ", total>>>>
                                   ELSE Append(@, r.output),
                        !.ret = IF last THEN "nil" ELSE "none",
                        !.pc = IF last THEN "send" ELSE "run"]

\* one iteration of runPrune's loop after pruneFuncs[i] returned r, and the
\* rest of runPrune when that was the last iteration
runPruneIter(wk, r) ==
    LET called == Append(wk.calls,
                    [op |-> pruneFuncs[wk.i], filters |-> r.filters, err |-> r.err])
        total  == Add64(wk.total, r.space)
        last   == wk.i = Len(pruneFuncs)
    IN  IF r.err # "nil"
        THEN [wk EXCEPT !.calls = called, !.ret = r.err, !.pc = "send"]
        ELSE [wk EXCEPT !.calls = called, !.total = total, !.i = @ + 1,
                        !.output = IF last
                                   THEN @ \o <<r.output, <<"Total reclaimed space: ", total>>>>
                                   ELSE Append(@, r.output),
                        !.ret = IF last THEN "nil" ELSE "none",
                        !.pc = IF last THEN "send" ELSE "run"]

\* the Args a returning prune function leaves reachable: newArgs is a local
Live(h) == [ref \in {"args"} |-> h[ref]]

\* ---- the scheduler's states, as the specification names them -------------

Running == pc = "wait"

Idle == pc = "select" /\ queue = 0 /\ tickerC = 0

Pending == ~Running /\ ~Idle

cycles == Len(workers)

\* ---- startup (main.go:15-45) ---------------------------------------------

InitWith(intervals, alls, flagsets) ==
    /\ intervalF \in intervals
    /\ allF \in alls
    /\ \E flags \in flagsets :
        /\ heap = ParseFlags(flags, 1, [ref \in {"args"} |-> NewArgs])
        /\ F = heap["args"]
    /\ queue = 1
    /\ tickerC = 0
    /\ phase = 0
    /\ pc = "select"
    /\ ctxLeft = <<>>
    /\ workers = <<>>
    /\ log = <<>>
    /\ hist = [cyc |-> <<>>, handled |-> 0, idle |-> 0]

\* the scheduler under every interval, with --filter label=env=staging and
\* --all unset
Init == InitWith(1..MaxInterval, {FALSE}, {ExampleFlags})

\* ---- time: the ticker fires every intervalF and drops the tick when its
\* ---- channel is full; every ctx comes one unit closer to its deadline

Tick(counted) ==
    LET fires     == (phase + 1) % intervalF = 0
        delivered == fires /\ tickerC < TickerCap
    IN  /\ phase' = (phase + 1) % intervalF
        /\ tickerC' = IF delivered THEN tickerC + 1 ELSE tickerC
        /\ ctxLeft' = [c \in DOMAIN ctxLeft |->
                          IF ctxLeft[c] > 0 THEN ctxLeft[c] - 1 ELSE 0]
        /\ hist' = [hist EXCEPT
                      !.idle = IF counted /\ delivered /\ Idle THEN @ + 1 ELSE @,
                      !.cyc = [c \in DOMAIN @ |->
                                 [@[c] EXCEPT !.late =
                                     @ \/ (ctxLeft[c] = 1 /\ workers[c].pc = "run")]]]
        /\ UNCHANGED <<intervalF, allF, F, heap, queue, pc, workers, log>>

TimePasses == Tick(FALSE)

\* the same step, with hist.idle counting the ticks delivered while Idle
TimePassesCounted == Tick(TRUE)

\* ---- the coordinator (main.go:47-70) -------------------------------------

\* case <-ticker.C: queue <- struct{}{} (main.go:49-50).  The send blocks
\* while queue is full: the coordinator then stays at pc = "enqueue", and
\* since it is the only receiver of queue nothing can take it out of there.
HandleTick ==
    /\ pc = "select"
    /\ tickerC > 0
    /\ tickerC' = tickerC - 1
    /\ IF queue < QueueCap
       THEN queue' = queue + 1 /\ pc' = "select"
       ELSE queue' = queue /\ pc' = "enqueue"
    /\ hist' = [hist EXCEPT !.handled = @ + 1]
    /\ UNCHANGED <<intervalF, allF, F, heap, phase, ctxLeft, workers, log>>

\* context.WithTimeout: a timeout that is not positive gives a ctx already done
WithTimeout(d) == IF d <= 0 THEN 0 ELSE d

\* case <-queue: up to the inner select (main.go:51-58); after is where the
\* coordinator goes next.  cycles < MaxCycles bounds the exploration only.
StartCycleAt(after) ==
    /\ pc = "select"
    /\ queue > 0
    /\ cycles < MaxCycles
    /\ queue' = queue - 1
    /\ log' = Append(log, [level |-> "info", msg |-> <<"Start cleaning up unused data">>])
    /\ ctxLeft' = Append(ctxLeft, WithTimeout(intervalF - TimeUnit))
    /\ workers' = Append(workers, NewWorker)
    /\ pc' = after
    /\ hist' = [hist EXCEPT !.cyc = Append(@,
                   [late |-> WithTimeout(intervalF - TimeUnit) = 0,
                    startTicks |-> hist.handled, endTicks |-> -1])]
    /\ UNCHANGED <<intervalF, allF, F, heap, tickerC, phase>>

\* faulty variant: the coordinator goes back to the outer select without
\* waiting for the cycle it started
StartCycleNoWait == StartCycleAt("select")

\* the coordinator waits in the inner select (main.go:59)
StartCycle == StartCycleAt("wait")

\* faulty variant: on deadline expiry the coordinator waits until the worker
\* has returned before it leaves the cycle
CycleTimeoutAfterWorker ==
    /\ pc = "wait"
    /\ ctxLeft[cycles] = 0
    /\ workers[cycles].pc = "send"
    /\ log' = Append(log, [level |-> "warning", msg |-> <<DeadlineExceeded>>])
    /\ pc' = "select"
    /\ hist' = [hist EXCEPT !.cyc[cycles].endTicks = hist.handled]
    /\ UNCHANGED <<intervalF, allF, F, heap, queue, tickerC, phase, ctxLeft, workers>>

\* faulty variant: the coordinator leaves a timed-out cycle without logging
CycleTimeoutSilent ==
    /\ pc = "wait"
    /\ ctxLeft[cycles] = 0
    /\ pc' = "select"
    /\ hist' = [hist EXCEPT !.cyc[cycles].endTicks = hist.handled]
    /\ UNCHANGED <<intervalF, allF, F, heap, queue, tickerC, phase, ctxLeft, workers, log>>

\* case <-ctx.Done(): (main.go:60-61)
CycleTimeout ==
    /\ pc = "wait"
    /\ ctxLeft[cycles] = 0
    /\ log' = Append(log, [level |-> "warning", msg |-> <<DeadlineExceeded>>])
    /\ pc' = "select"
    /\ hist' = [hist EXCEPT !.cyc[cycles].endTicks = hist.handled]
    /\ UNCHANGED <<intervalF, allF, F, heap, queue, tickerC, phase, ctxLeft, workers>>

\* case err := <-errCh: (main.go:62-67); logger.Error does not format, it
\* prints its operands one after the other.  w: the worker whose send is
\* received.  requeue: whether a failed cycle puts a request back into queue
\* (the code never does).
ReceiveFrom(w, requeue) ==
    /\ pc = "wait"
    /\ workers[w].pc = "send"
    /\ LET err == workers[w].ret
       IN  /\ log' = Append(log,
                IF err # "nil"
                THEN [level |-> "error", msg |-> <<"Error occur: %v", err>>]
                ELSE [level |-> "info", msg |-> <<"Finished cleaning">>])
           /\ queue' = IF requeue /\ err # "nil" /\ queue < QueueCap
                       THEN queue + 1 ELSE queue
    /\ workers' = [workers EXCEPT ![w] = Exited(@)]
    /\ pc' = "select"
    /\ hist' = [hist EXCEPT !.cyc[cycles].endTicks = hist.handled]
    /\ UNCHANGED <<intervalF, allF, F, heap, tickerC, phase, ctxLeft>>

\* errCh is made anew in every cycle (main.go:55): the only sender the
\* coordinator can receive from is the worker of the cycle it waits for
Receive(requeue) == ReceiveFrom(cycles, requeue)

\* faulty variant: a failed cycle is retried at once
CycleDoneRetry == Receive(TRUE)

\* faulty variant: one errCh shared by all cycles, so the result of any
\* worker blocked on its send can be received
CycleDoneSharedCh == \E w \in 1..cycles : ReceiveFrom(w, FALSE)

CycleDone == Receive(FALSE)

\* ---- worker w inside runPrune: pruneFuncs[i] is called and returns -------

RunPrune(w, bytes) ==
    /\ w \in DOMAIN workers
    /\ workers[w].pc = "run"
    /\ \E res \in Returns(pruneFuncs[workers[w].i], ctxLeft[w] = 0, bytes) :
          LET r == Call(pruneFuncs[workers[w].i], heap, allF, "args", res)
          IN  /\ heap' = Live(r.heap)
              /\ workers' = [workers EXCEPT ![w] = runPruneIter(@, r)]
    /\ UNCHANGED <<intervalF, allF, F, queue, tickerC, phase, pc, ctxLeft, log, hist>>

Next ==
    \/ TimePasses
    \/ HandleTick
    \/ StartCycle
    \/ CycleTimeout
    \/ CycleDone
    \/ \E w \in 1..MaxCycles : RunPrune(w, SchedBytes)

Spec == Init /\ [][Next]_vars

\* ---- the scheduler with the ticks delivered while Idle counted -----------

NextCounted ==
    \/ TimePassesCounted
    \/ HandleTick
    \/ StartCycle
    \/ CycleTimeout
    \/ CycleDone
    \/ \E w \in 1..MaxCycles : RunPrune(w, SchedBytes)

TickSpec == Init /\ [][NextCounted]_vars

\* ---- one cycle, with the engine's byte counts drawn from all of Bytes ----

NextPrune ==
    \/ cycles = 0 /\ StartCycle
    \/ RunPrune(1, Bytes)
    \/ CycleTimeout
    \/ CycleDone

InitPrune == InitWith(1..MaxInterval, BOOLEAN, FilterFlags)

PruneSpec == InitPrune /\ [][NextPrune]_vars

\* ---- the scheduler under every Filter Set and --all, at one interval -----

InitFilters == InitWith({TimeUnit}, BOOLEAN, FilterFlags)

FilterSpec == InitFilters /\ [][Next]_vars

\* ---- the scheduler with progress: time keeps passing, and the coordinator
\* ---- goroutine, whenever it stays able to take a step, takes one.  Nothing
\* ---- is assumed of the workers: an engine call may never return.

Coordinator == HandleTick \/ StartCycle \/ CycleTimeout \/ CycleDone

FairSpec == Spec /\ WF_vars(TimePasses) /\ WF_vars(Coordinator)

\* ==== properties ==========================================================

\* ---- reading the coordinator's log ---------------------------------------

IsStart(e) == e.msg[1] = "Start cleaning up unused data"

IsTimeout(e) == e.level = "warning" /\ e.msg = <<DeadlineExceeded>>

IsError(e) == e.level = "error"

IsSuccess(e) == e.level = "info" /\ e.msg[1] = "Finished cleaning"

\* the position in log of the start message of cycle c
StartIdx(c) ==
    CHOOSE k \in 1..Len(log) :
        IsStart(log[k]) /\ Cardinality({j \in 1..k : IsStart(log[j])}) = c

\* what the coordinator logged for cycle c after its start message
Outcomes(c) ==
    SubSeq(log, StartIdx(c) + 1,
           IF c < cycles THEN StartIdx(c + 1) - 1 ELSE Len(log))

Ended(c) == Outcomes(c) # <<>>

Outcome(c) == Outcomes(c)[1]

\* ---- C1 ------------------------------------------------------------------
\* C1: at most one Cycle Execution is active (started, outcome not yet taken
\* by the coordinator), and every cycle but the newest has either reported
\* completion to the coordinator or hit its deadline.
C1_OneCycleActive ==
    /\ Cardinality({c \in 1..cycles : ~Ended(c)}) <= 1
    /\ \A c \in 1..(cycles - 1) : workers[c].pc = "exit" \/ ctxLeft[c] = 0

\* a second cycle is running after the first one ended
C1_Witness == cycles = 2 /\ Running /\ Ended(1)

\* ---- C2 ------------------------------------------------------------------
\* C2: handling a tick never blocks the coordinator: it is never stuck on the
\* enqueue with the queue full.
C2_TickNeverBlocks == ~(pc = "enqueue" /\ queue = QueueCap)

\* ---- C3 ------------------------------------------------------------------
\* C3: the number of cycles started never exceeds one plus the number of
\* ticks delivered while the scheduler was Idle, and equals it whenever the
\* scheduler is Idle again: ticks delivered while Pending or Running start
\* no cycle.
C3_CyclesMatchIdleTicks ==
    /\ cycles <= 1 + hist.idle
    /\ Idle => cycles = 1 + hist.idle

\* ---- C4 ------------------------------------------------------------------
\* C4: the scheduler starts Pending and, as long as the first cycle has not
\* started, the coordinator is at its select with the startup request in the
\* queue: no tick can prevent the first cycle.
C4_FirstCycleNotPrevented == cycles = 0 => (pc = "select" /\ queue > 0)

\* ---- C5 ------------------------------------------------------------------
\* C5: a cycle whose deadline elapsed before runPrune returned ends with the
\* timeout warning as its logged outcome, never error or success.
C5_LateCycleLogsTimeout ==
    \A c \in 1..cycles :
        (hist.cyc[c].late /\ Ended(c)) => IsTimeout(Outcome(c))

\* ---- C6 ------------------------------------------------------------------
\* C6: between the end of a cycle and the start of the next the coordinator
\* handles at least one tick, and the cycles started never exceed one plus
\* the ticks handled.
C6_NoRetryWithoutTick ==
    /\ cycles <= 1 + hist.handled
    /\ \A c \in 2..cycles : hist.cyc[c].startTicks > hist.cyc[c - 1].endTicks

\* a cycle that failed or timed out, and the next cycle started
C6_Witness == cycles = 2 /\ Ended(1) /\ ~IsSuccess(Outcome(1))

\* ---- C7 ------------------------------------------------------------------
\* the k-th call of cycle c is the engine call that failed
FailedAt(c, k) == k \in DOMAIN workers[c].calls /\ workers[c].calls[k].err # "nil"

\* C7 as claimed: when a call fails with E it is the last call of its cycle,
\* runPrune returns E, and the outcome logged for the cycle is the error.
C7_FailureLogsError ==
    \A c \in 1..cycles :
        /\ \A k \in 1..Len(pruneFuncs) :
              FailedAt(c, k) =>
                 /\ k = Len(workers[c].calls)
                 /\ workers[c].ret = workers[c].calls[k].err
                 /\ workers[c].pc = "send"
        /\ (workers[c].ret \notin {"none", "nil"} /\ Ended(c)) =>
              Outcome(c) = [level |-> "error",
                            msg |-> <<"Error occur: %v", workers[c].ret>>]

\* C7 as amended: when a call fails with E it is the last call of its cycle
\* and runPrune returns E; the outcome logged for the cycle is the error
\* with E when the coordinator receives the worker's result, and the timeout
\* warning when it took the deadline first; it is never success.
C7_FailFast ==
    \A c \in 1..cycles :
        /\ \A k \in 1..Len(pruneFuncs) :
              FailedAt(c, k) =>
                 /\ k = Len(workers[c].calls)
                 /\ workers[c].ret = workers[c].calls[k].err
                 /\ workers[c].pc = "send"
                 /\ [j \in 1..k |-> workers[c].calls[j].op] = SubSeq(pruneFuncs, 1, k)
        /\ (workers[c].ret \notin {"none", "nil"} /\ Ended(c)) =>
              IF workers[c].pc = "exit"
              THEN Outcome(c) = [level |-> "error",
                                 msg |-> <<"Error occur: %v", workers[c].ret>>]
              ELSE IsTimeout(Outcome(c))

\* a call failed with the engine's error, the coordinator received it and
\* logged the error outcome
C7_Witness ==
    \E c \in 1..cycles :
        /\ workers[c].pc = "exit"
        /\ workers[c].ret = EngineErr
        /\ IsError(Outcome(c))

\* ---- C8 ------------------------------------------------------------------
\* F with the pair key = value added
With(fs, key, value) ==
    [k \in DOMAIN fs \cup {key} |->
        [v \in (IF k \in DOMAIN fs THEN DOMAIN fs[k] ELSE {})
                 \cup (IF k = key THEN {value} ELSE {}) |-> TRUE]]

\* C8: every image-prune call receives F with dangling = (not all) added,
\* every other prune call receives exactly F, and args stays F.
C8_FiltersReceived ==
    /\ heap["args"] = F
    /\ \A c \in 1..cycles :
          \A k \in DOMAIN workers[c].calls :
              workers[c].calls[k].filters =
                  IF workers[c].calls[k].op = "images"
                  THEN With(F, "dangling", IF allF THEN "false" ELSE "true")
                  ELSE F

\* in a second cycle the image call and a call after it have been made
C8_Witness == cycles = 2 /\ Len(workers[2].calls) > 2

\* ---- C9 ------------------------------------------------------------------
\* the bytes a summary line reports
SpaceOf(line) == line[4]

\* c + i + v as five limbs: the arithmetic sum, nothing lost
Sum3(c, i, v) == SubSeq(AddCarry(AddCarry(c, i, 1, 0), v \o <<0>>, 1, 0), 1, 5)

Succeeded(w) == w \in 1..cycles /\ Len(workers[w].output) = Len(pruneFuncs) + 1

SumOf(w) ==
    Sum3(SpaceOf(workers[w].output[1]), SpaceOf(workers[w].output[2]),
         SpaceOf(workers[w].output[4]))

LoggedTotal(w) == workers[w].output[Len(pruneFuncs) + 1][2]

\* C9 as claimed: the logged total is the arithmetic sum c + i + v.
C9_TotalIsSum ==
    \A w \in 1..MaxCycles : Succeeded(w) => LoggedTotal(w) \o <<0>> = SumOf(w)

\* C9 as amended: the logged total is c + i + v modulo 2^64 (the low four
\* limbs of the sum), which is the sum itself when it is below 2^64.
C9_TotalIsSumMod64 ==
    \A w \in 1..MaxCycles : Succeeded(w) => LoggedTotal(w) = SubSeq(SumOf(w), 1, 4)

\* a full success whose sum does not fit in 64 bits
C9_Witness == \E w \in 1..MaxCycles : Succeeded(w) /\ SumOf(w)[5] > 0

\* ---- C10 -----------------------------------------------------------------
\* C10: after a cycle that ended with an error or a timeout, and until the
\* next cycle starts, the coordinator is at its select, never blocked.
C10_FailedCycleNeverBlocks ==
    (cycles > 0 /\ Ended(cycles) /\ ~IsSuccess(Outcome(cycles))) => pc = "select"

\* ---- C11 -----------------------------------------------------------------
\* the Cycle Requests held anywhere: in queue, in the ticker's buffer, or in
\* the hand of a coordinator blocked on its send
Outstanding == queue + tickerC + (IF pc = "enqueue" THEN 1 ELSE 0)

\* C11: the queue never holds more than one request, at most one request is
\* outstanding, and no trigger is kept in the timer buffer while a request is
\* pending in the queue or a cycle is running.
C11_OneRequestOutstanding ==
    /\ queue <= QueueCap
    /\ Outstanding <= 1
    /\ (queue > 0 \/ Running) => tickerC = 0

\* ---- C12 -----------------------------------------------------------------
\* the workers inside a prune call or with prune calls left to make
InRunPrune == {w \in 1..cycles : workers[w].pc = "run"}

\* C12 as claimed: at most one worker, abandoned ones included, is inside a
\* prune call or has prune calls left to make.
C12_OneWorkerUsesEngine == Cardinality(InRunPrune) <= 1

\* C12 as amended: at most one worker whose ctx is not done is inside a prune
\* call or has calls left; any other such worker belongs to a cycle that has
\* ended and its ctx is done.
C12_OneLiveWorkerUsesEngine ==
    /\ Cardinality({w \in InRunPrune : ctxLeft[w] > 0}) <= 1
    /\ \A w \in InRunPrune : w < cycles => (ctxLeft[w] = 0 /\ Ended(w))

\* an abandoned worker and the worker of the next cycle both have calls to make
C12_Witness == InRunPrune = {1, 2} /\ ctxLeft[2] > 0

\* ---- C13 -----------------------------------------------------------------
\* C13: the calls of a cycle are a prefix of containers, images, networks,
\* volumes, each made once, and every call before the last one made returned
\* without error.
C13_FixedOrder ==
    \A c \in 1..cycles :
        LET made == workers[c].calls
        IN  /\ Len(made) <= 4
            /\ [k \in 1..Len(made) |-> made[k].op]
                  = SubSeq(<<"containers", "images", "networks", "volumes">>, 1, Len(made))
            /\ \A k \in 1..(Len(made) - 1) : made[k].err = "nil"

\* all four operations of a cycle have been called
C13_Witness == \E c \in 1..cycles : Len(workers[c].calls) = 4

\* ---- C14 -----------------------------------------------------------------
\* the worker of cycle c returned from runPrune before the deadline of ctx
\* elapsed
ReturnedInTime(c) == workers[c].pc \in {"send", "exit"} /\ ~hist.cyc[c].late

\* C14: a cycle whose worker returned before the deadline ends with the
\* worker's own outcome, success for nil and the error otherwise, never with
\* the timeout warning.
C14_InTimeWorkerDecides ==
    \A c \in 1..cycles :
        (ReturnedInTime(c) /\ Ended(c)) =>
            IF workers[c].ret = "nil"
            THEN IsSuccess(Outcome(c))
            ELSE IsError(Outcome(c)) /\ Outcome(c).msg[2] = workers[c].ret

\* ---- C15 -----------------------------------------------------------------
\* C15: the result of a worker whose cycle ended with the timeout warning is
\* never received: that worker never gets past its send, its cycle has no
\* other outcome, and the outcome of every cycle whose worker's result was
\* received is that worker's own result.
C15_AbandonedResultNeverReceived ==
    \A c \in 1..cycles :
        /\ (Ended(c) /\ IsTimeout(Outcome(c))) =>
              (workers[c].pc # "exit" /\ Len(Outcomes(c)) = 1)
        /\ workers[c].pc = "exit" =>
              /\ Ended(c)
              /\ IF workers[c].ret = "nil"
                 THEN IsSuccess(Outcome(c))
                 ELSE IsError(Outcome(c)) /\ Outcome(c).msg[2] = workers[c].ret

\* cycle 1 timed out, its abandoned worker has an error to deliver, and
\* cycle 2 has ended with the success of its own worker
C15_Witness ==
    /\ cycles = 2
    /\ IsTimeout(Outcome(1))
    /\ workers[1].pc = "send" /\ workers[1].ret # "nil"
    /\ Ended(2) /\ IsSuccess(Outcome(2))

\* ---- C16 -----------------------------------------------------------------
\* C16: every cycle that starts ends: whenever the coordinator is Running it
\* later is not, whether or not the worker ever returns.
C16_CycleEnds == Running ~> ~Running

\* a cycle has ended while its worker is still inside runPrune
C16_Witness ==
    \E c \in 1..cycles :
        Ended(c) /\ IsTimeout(Outcome(c)) /\ workers[c].pc = "run" /\ ~Running

\* ---- C17 -----------------------------------------------------------------
\* how the summary line of each operation begins
SummaryHead(op) ==
    CASE op = "containers" -> "Deleted Containers: "
      [] op = "images"     -> "Deleted Images: "
      [] op = "networks"   -> "Deleted Networks: "
      [] op = "volumes"    -> "Deleted Volumes: "

\* C17: the lines runPrune has reported are the summaries of the calls that
\* returned without error, in the order of the calls, followed by the total
\* exactly when all four calls succeeded; after a failure of call k there are
\* k-1 summaries and no total.
C17_SummariesThenTotal ==
    \A c \in 1..cycles :
        workers[c].pc \in {"run", "send"} =>
            LET made == workers[c].calls
                out  == workers[c].output
                ok   == {k \in 1..Len(made) : made[k].err = "nil"}
                n    == Cardinality(ok)
            IN  /\ ok = 1..n
                /\ Len(out) = n + (IF n = 4 THEN 1 ELSE 0)
                /\ \A k \in 1..n : out[k][1] = SummaryHead(made[k].op)
                /\ n = 4 => out[5] = <<"Total reclaimed space: ", workers[c].total>>
                /\ (workers[c].pc = "send" /\ workers[c].ret = "nil") <=> n = 4

\* the third call of a cycle failed after two summaries were reported
C17_Witness ==
    \E c \in 1..cycles :
        /\ Len(workers[c].calls) = 3
        /\ workers[c].calls[3].err # "nil"
        /\ Len(workers[c].output) = 2

\* ---- C18 -----------------------------------------------------------------
\* C18: no worker is left blocked on its send: a worker that has returned
\* from runPrune and waits to deliver its result belongs to a cycle that has
\* not ended, so that the coordinator is there to receive it.
C18_NoWorkerStuckSending ==
    \A c \in 1..cycles : workers[c].pc = "send" => ~Ended(c)

\* ---- C19 -----------------------------------------------------------------
\* C19: the log begins with a start message, every cycle that is over has
\* exactly one outcome between its start message and the next one, the cycle
\* under way has none yet, and every outcome is finished, error or timeout.
C19_OneOutcomePerCycle ==
    /\ log # <<>> => IsStart(log[1])
    /\ \A c \in 1..cycles :
          /\ Len(Outcomes(c)) = IF c = cycles /\ Running THEN 0 ELSE 1
          /\ \A k \in 1..Len(Outcomes(c)) :
                \/ IsSuccess(Outcomes(c)[k])
                \/ IsError(Outcomes(c)[k])
                \/ IsTimeout(Outcomes(c)[k])

\* two cycles are over, one with the timeout warning and one with an outcome
\* of its worker
C19_Witness ==
    /\ cycles = 2 /\ ~Running
    /\ \E c \in 1..2 : IsTimeout(Outcome(c))
    /\ \E c \in 1..2 : ~IsTimeout(Outcome(c))

====
